---- MODULE Spec2Model ----
(***************************************************************************)
(* The AUSWO points calculator (src/AUSWO/app/main.py): the rule table     *)
(* RULES loaded from rules.json, the scoring functions that read it, and   *)
(* the /points/calc handler calc_points, run by concurrent workers.        *)
(*                                                                         *)
(* Numbers: every score, band, year count and point value is an integer    *)
(* here.  The code compares floats with >= and <= only and adds integers,  *)
(* so test scores stand in half-band units and nothing else is lost.       *)
(***************************************************************************)
EXTENDS Integers, Sequences, FiniteSets, TLC

VARIABLES
    rules_json,   \* the content of rules.json as read at start-up (RULES_PATH)
    RULES,        \* the module-level table every scorer reads
    pc,           \* per worker: the statement of calc_points it is at
    req,          \* per worker: the CalcRequest being evaluated
    br,           \* per worker: the local dict br built so far
    resp,         \* per worker: what the caller has received
    call          \* the last direct call of a scoring function, with its result

vars == <<rules_json, RULES, pc, req, br, resp, call>>

(***************************************************************************)
(* Bounds of the model.                                                    *)
(***************************************************************************)
MaxBuckets == 2      \* longest bucket sequence / band list enumerated
MaxScore == 2        \* ages, years and test scores range over 0..MaxScore

\* Python's None for an Optional[float] field; scores are >= 0 in the model.
None == -1

PointValues == {5, 10}
Scores == 0 .. MaxScore
OptScores == {None} \cup Scores

(***************************************************************************)
(* Results of an evaluation: a returned value, or a raised exception with  *)
(* the text str(e) that calc_points puts in the HTTP 400.                  *)
(***************************************************************************)
Ok(v) == [raised |-> FALSE, val |-> v, detail |-> ""]

Raise(text) == [raised |-> TRUE, val |-> 0, detail |-> text]

\* str(KeyError(k)) is the key in single quotes.
KeyError(k) == Raise("'" \o k \o "'")

\* d[k] on a dict: the value, or KeyError.
Has(d, k) == k \in DOMAIN d

\* d.get(k, default)
Get(d, k, default) == IF k \in DOMAIN d THEN d[k] ELSE default

Min2(a, b) == IF a <= b THEN a ELSE b

Max2(a, b) == IF a >= b THEN a ELSE b

(***************************************************************************)
(* _bucket_points: the first bucket, in list order, with                   *)
(* min <= value <= max (max defaults to +inf), else 0.                     *)
(***************************************************************************)
\* value >= b["min"] and value <= b.get("max", float("inf"))
BucketMatches(b, value) ==
    /\ value >= b.min
    /\ (Has(b, "max") => value <= b.max)

RECURSIVE bucket_points_from(_, _, _)
bucket_points_from(buckets, value, i) ==
    IF i > Len(buckets) THEN Ok(0)
    ELSE LET b == buckets[i] IN
         IF ~Has(b, "min") THEN KeyError("min")
         ELSE IF BucketMatches(b, value)
              THEN (IF Has(b, "points") THEN Ok(b.points) ELSE KeyError("points"))
              ELSE bucket_points_from(buckets, value, i + 1)

\* A plausible slip: the last matching bucket wins (no early return).
RECURSIVE last_match_from(_, _, _)
last_match_from(buckets, value, i) ==
    IF i = 0 THEN Ok(0)
    ELSE LET b == buckets[i] IN
         IF ~Has(b, "min") THEN KeyError("min")
         ELSE IF BucketMatches(b, value)
              THEN (IF Has(b, "points") THEN Ok(b.points) ELSE KeyError("points"))
              ELSE last_match_from(buckets, value, i - 1)

bucket_points_last_match(buckets, value) == last_match_from(buckets, value, Len(buckets))

_bucket_points(buckets, value) == bucket_points_from(buckets, value, 1)

score_age(age) ==
    IF ~Has(RULES, "age") THEN KeyError("age")
    ELSE _bucket_points(RULES.age, age)

(***************************************************************************)
(* score_english.  sorted(rows, key=lambda x: x["min"], reverse=True) is   *)
(* Python's stable sort: a new list, descending by min, rows of equal min  *)
(* in their table order.  It is built by stable insertion.                 *)
(***************************************************************************)
RowsAtLeast(rows, m) == SelectSeq(rows, LAMBDA x : x.min >= m)

RowsBelow(rows, m) == SelectSeq(rows, LAMBDA x : x.min < m)

\* row goes behind every row whose min is >= its own.
InsertDescending(done, row) ==
    RowsAtLeast(done, row.min) \o <<row>> \o RowsBelow(done, row.min)

RECURSIVE sorted_prefix(_, _)
sorted_prefix(rows, n) ==
    IF n = 0 THEN <<>>
    ELSE InsertDescending(sorted_prefix(rows, n - 1), rows[n])

\* A plausible slip: sorted ascending and then reversed, which also reverses
\* the rows of equal min.
RECURSIVE sorted_reversed_prefix(_, _)
sorted_reversed_prefix(rows, n) ==
    IF n = 0 THEN <<>>
    ELSE LET done == sorted_reversed_prefix(rows, n - 1) IN
         SelectSeq(done, LAMBDA x : x.min > rows[n].min) \o <<rows[n]>>
             \o SelectSeq(done, LAMBDA x : x.min <= rows[n].min)

sorted_ascending_reversed(rows) == sorted_reversed_prefix(rows, Len(rows))

sorted_descending(rows) == sorted_prefix(rows, Len(rows))

\* for row in <sorted rows>: if mn >= row["min"]: return row["points"]
RECURSIVE band_points_from(_, _, _)
band_points_from(rows, mn, i) ==
    IF i > Len(rows) THEN Ok(0)
    ELSE IF mn >= rows[i].min
         THEN (IF Has(rows[i], "points") THEN Ok(rows[i].points) ELSE KeyError("points"))
         ELSE band_points_from(rows, mn, i + 1)

\* The per-skill loop over RULES["english"][key]; the key function of sorted()
\* reads x["min"] of every row before the loop starts.
band_points(key, mn) ==
    IF ~Has(RULES, "english") THEN KeyError("english")
    ELSE IF ~Has(RULES.english, key) THEN KeyError(key)
    ELSE LET rows == RULES.english[key] IN
         IF \E i \in 1 .. Len(rows) : ~Has(rows[i], "min") THEN KeyError("min")
         ELSE band_points_from(sorted_descending(rows), mn, 1)

overall_points(key, ov) ==
    IF ~Has(RULES, "english") THEN KeyError("english")
    ELSE IF ~Has(RULES.english, key) THEN KeyError(key)
    ELSE _bucket_points(RULES.english[key], ov)

\* bands = [listening, reading, writing, speaking]
SkillBands(e) == <<e.listening, e.reading, e.writing, e.speaking>>

AllPresent(bands) == \A i \in 1 .. Len(bands) : bands[i] # None

SeqMin(bands) == CHOOSE m \in {bands[i] : i \in 1 .. Len(bands)} :
                     \A i \in 1 .. Len(bands) : m <= bands[i]

\* A plausible slip: the four skills are looked at before overall.
score_english_skills_first(e) ==
    IF AllPresent(SkillBands(e))
    THEN (IF e.test = "ielts"
          THEN band_points("ielts_bands", SeqMin(SkillBands(e)))
          ELSE band_points("pte_bands", SeqMin(SkillBands(e))))
    ELSE IF e.overall # None
    THEN (IF e.test = "ielts"
          THEN overall_points("ielts_overall", e.overall)
          ELSE overall_points("pte_overall", e.overall))
    ELSE Ok(0)

\* A plausible slip: a missing skill is skipped and the rest decide the band.
score_english_partial(e) ==
    IF e.overall # None
    THEN (IF e.test = "ielts"
          THEN overall_points("ielts_overall", e.overall)
          ELSE overall_points("pte_overall", e.overall))
    ELSE LET given == SelectSeq(SkillBands(e), LAMBDA v : v # None) IN
         IF Len(given) > 0
         THEN (IF e.test = "ielts"
               THEN band_points("ielts_bands", SeqMin(given))
               ELSE band_points("pte_bands", SeqMin(given)))
         ELSE Ok(0)

score_english(e) ==
    IF e.overall # None
    THEN (IF e.test = "ielts"
          THEN overall_points("ielts_overall", e.overall)
          ELSE overall_points("pte_overall", e.overall))
    ELSE IF AllPresent(SkillBands(e))
    THEN (IF e.test = "ielts"
          THEN band_points("ielts_bands", SeqMin(SkillBands(e)))
          ELSE band_points("pte_bands", SeqMin(SkillBands(e))))
    ELSE Ok(0)

(***************************************************************************)
(* The remaining scorers.                                                  *)
(***************************************************************************)
score_education(level) ==
    IF ~Has(RULES, "education") THEN KeyError("education")
    ELSE IF ~Has(RULES.education, "mapping") THEN KeyError("mapping")
    ELSE Ok(Get(RULES.education.mapping, level, 0))

\* The combination of the two sub-scores by r["mode"].
combine_experience(r, over, aus) ==
    IF ~Has(r, "mode") THEN KeyError("mode")
    ELSE IF r.mode = "sum_cap"
    THEN (IF Has(r, "cap_points") THEN Ok(Min2(r.cap_points, over + aus))
          ELSE KeyError("cap_points"))
    ELSE IF r.mode = "max_only" THEN Ok(Max2(over, aus))
    ELSE Ok(0)

\* A plausible slip: the cap is left out of sum_cap and max_only adds.
score_experience_uncapped(exp) ==
    LET r == RULES.work_experience
        over == _bucket_points(r.overseas, exp.overseas_years)
        aus == _bucket_points(r.australia, exp.aus_years)
    IN  IF r.mode \in {"sum_cap", "max_only"} THEN Ok(over.val + aus.val) ELSE Ok(0)

score_experience(exp) ==
    IF ~Has(RULES, "work_experience") THEN KeyError("work_experience")
    ELSE LET r == RULES.work_experience IN
         IF ~Has(r, "overseas") THEN KeyError("overseas")
         ELSE LET over == _bucket_points(r.overseas, exp.overseas_years) IN
              IF over.raised THEN over
              ELSE IF ~Has(r, "australia") THEN KeyError("australia")
              ELSE LET aus == _bucket_points(r.australia, exp.aus_years) IN
                   IF aus.raised THEN aus
                   ELSE combine_experience(r, over.val, aus.val)

\* A plausible slip: the regional bonus is not nested under completed.
score_au_study_flat(stu) ==
    Ok((IF stu.completed THEN RULES.australia_study.points ELSE 0)
       + (IF stu.regional THEN RULES.australia_study.regional_bonus ELSE 0))

score_au_study(stu) ==
    IF ~stu.completed THEN Ok(0)
    ELSE IF ~Has(RULES, "australia_study") THEN KeyError("australia_study")
    ELSE IF ~Has(RULES.australia_study, "points") THEN KeyError("points")
    ELSE IF ~stu.regional THEN Ok(RULES.australia_study.points)
    ELSE IF ~Has(RULES.australia_study, "regional_bonus") THEN KeyError("regional_bonus")
    ELSE Ok(RULES.australia_study.points + RULES.australia_study.regional_bonus)

\* RULES[section]["points"] if flag else 0
flag_points(section, flag) ==
    IF ~flag THEN Ok(0)
    ELSE IF ~Has(RULES, section) THEN KeyError(section)
    ELSE IF ~Has(RULES[section], "points") THEN KeyError("points")
    ELSE Ok(RULES[section].points)

\* A plausible slip: the three optional flags are summed into one category.
score_optional_merged(professional_year, naati, partner) ==
    LET py == flag_points("professional_year", professional_year)
        na == flag_points("naati", naati)
    IN  IF py.raised THEN py
        ELSE IF na.raised THEN na
        ELSE IF ~Has(RULES, "partner") THEN KeyError("partner")
        ELSE Ok("optional" :> (py.val + na.val + Get(RULES.partner, partner, 0)))

\* Returns the dict of the three optional categories.
score_optional(professional_year, naati, partner) ==
    LET py == flag_points("professional_year", professional_year)
        na == flag_points("naati", naati)
    IN  IF py.raised THEN py
        ELSE IF na.raised THEN na
        ELSE IF ~Has(RULES, "partner") THEN KeyError("partner")
        ELSE Ok(("professional_year" :> py.val) @@ ("naati" :> na.val)
                @@ ("partner" :> Get(RULES.partner, partner, 0)))

score_state_nomination(visa) ==
    IF ~Has(RULES, "state_nomination") THEN KeyError("state_nomination")
    ELSE Ok(Get(RULES.state_nomination, visa, 0))

(***************************************************************************)
(* Rule tables.  rules.json is data: the program takes whatever            *)
(* json.loads returns.  BaseRules is a well-formed table of the shape the  *)
(* scorers expect; the specifications replace sections of it by every      *)
(* section of a bounded family.                                            *)
(***************************************************************************)
SeqsUpTo(S, n) == UNION {[1 .. k -> S] : k \in 0 .. n}

\* {min, max?, points}
Buckets ==
    [min : Scores, points : PointValues]
    \cup [min : Scores, max : Scores, points : PointValues]

BucketSeqs == SeqsUpTo(Buckets, MaxBuckets)

\* {min, points}: the rows of ielts_bands / pte_bands
BandRows == [min : Scores, points : PointValues]

BandSeqs == SeqsUpTo(BandRows, MaxBuckets)

BaseRules ==
    [meta |-> [version |-> "v1", updated_at |-> "2024-07-01"],
     age |-> <<[min |-> 0, max |-> 1, points |-> 10], [min |-> 2, points |-> 5]>>,
     english |->
        [ielts_overall |-> <<[min |-> 2, points |-> 10]>>,
         pte_overall |-> <<[min |-> 1, points |-> 5]>>,
         ielts_bands |-> <<[min |-> 1, points |-> 5], [min |-> 2, points |-> 10]>>,
         pte_bands |-> <<[min |-> 2, points |-> 5]>>],
     education |-> [mapping |-> ("phd" :> 20) @@ ("bachelor" :> 15)],
     work_experience |->
        [overseas |-> <<[min |-> 1, max |-> 1, points |-> 5], [min |-> 2, points |-> 10]>>,
         australia |-> <<[min |-> 1, points |-> 10]>>,
         mode |-> "sum_cap",
         cap_points |-> 15],
     australia_study |-> [points |-> 5, regional_bonus |-> 5],
     professional_year |-> [points |-> 5],
     naati |-> [points |-> 5],
     partner |-> ("skilled" :> 10) @@ ("single" :> 10) @@ ("english_only" :> 5),
     state_nomination |-> ("189" :> 0) @@ ("190" :> 5) @@ ("491" :> 15)]

Workers == {"w1", "w2"}

NoCall == [fn |-> "none"]

NoResponse == [status |-> 0]

EmptyDict == <<>>

\* No request is being served: the state of the workers in every
\* specification of a single scoring function.
WorkersIdle ==
    /\ pc = [w \in Workers |-> "idle"]
    /\ req = [w \in Workers |-> EmptyDict]
    /\ br = [w \in Workers |-> EmptyDict]
    /\ resp = [w \in Workers |-> NoResponse]

\* RULES = json.loads(RULES_PATH.read_text(...)), once, at import.
Load(table) ==
    /\ rules_json = table
    /\ RULES = table

(***************************************************************************)
(* score_age called directly, on every age table of the family.            *)
(***************************************************************************)
InitAge ==
    /\ \E s \in BucketSeqs : Load([BaseRules EXCEPT !.age = s])
    /\ call = NoCall
    /\ WorkersIdle

CallScoreAge ==
    /\ call = NoCall
    /\ \E age \in Scores :
          call' = [fn |-> "score_age", age |-> age, ret |-> score_age(age)]
    /\ UNCHANGED <<rules_json, RULES, pc, req, br, resp>>

NextAge == CallScoreAge

SpecAge == InitAge /\ [][NextAge]_vars

\* C2: score_age returns the points of the first bucket of the age table, in
\* table order, with min <= age <= max (no max: no upper limit), so that of
\* two overlapping buckets the earlier wins; and 0 when no bucket matches.
C2_FirstBucketWins ==
    call.fn = "score_age" =>
        LET t == RULES.age
            v == call.age
            hits == {i \in 1 .. Len(t) :
                        t[i].min <= v /\ (("max" \in DOMAIN t[i]) => v <= t[i].max)}
        IN  /\ ~call.ret.raised
            /\ hits = {} => call.ret.val = 0
            /\ hits # {} =>
                  \E i \in hits : (\A j \in hits : i <= j) /\ call.ret.val = t[i].points

\* Two overlapping buckets with different points, an age in both: the
\* earlier one's points came back.
C2_Witness ==
    /\ call.fn = "score_age"
    /\ Len(RULES.age) = 2
    /\ BucketMatches(RULES.age[1], call.age)
    /\ BucketMatches(RULES.age[2], call.age)
    /\ RULES.age[1].points # RULES.age[2].points
    /\ "max" \notin DOMAIN RULES.age[2]
    /\ call.ret.val = RULES.age[1].points

(***************************************************************************)
(* score_english called directly.  Two families of tables: every pair of   *)
(* overall tables (SpecEnglishOverall) and every band list for one test    *)
(* beside the base list for the other (SpecEnglishSkills).                 *)
(***************************************************************************)
ShortBucketSeqs == SeqsUpTo(Buckets, 1)

\* The English part of a request, as model_dump() gives it.
English(test, overall, l, r, w, s) ==
    [test |-> test, overall |-> overall,
     listening |-> l, reading |-> r, writing |-> w, speaking |-> s]

Tests == {"ielts", "pte"}

\* Skills either missing or at the top score.
EnglishWithOverall ==
    {English(t, ov, l, r, w, s) :
        t \in Tests, ov \in OptScores,
        l \in {None, MaxScore}, r \in {None, MaxScore},
        w \in {None, MaxScore}, s \in {None, MaxScore}}

EnglishSkillsOnly ==
    {English(t, None, l, r, w, s) :
        t \in Tests, l \in OptScores, r \in OptScores, w \in OptScores, s \in OptScores}

InitEnglishOverall ==
    /\ \E i \in ShortBucketSeqs, p \in ShortBucketSeqs :
          Load([BaseRules EXCEPT !.english.ielts_overall = i,
                                 !.english.pte_overall = p])
    /\ call = NoCall
    /\ WorkersIdle

CallScoreEnglishOverall ==
    /\ call = NoCall
    /\ \E e \in EnglishWithOverall :
          call' = [fn |-> "score_english", e |-> e, ret |-> score_english(e)]
    /\ UNCHANGED <<rules_json, RULES, pc, req, br, resp>>

NextEnglishOverall == CallScoreEnglishOverall

SpecEnglishOverall == InitEnglishOverall /\ [][NextEnglishOverall]_vars

InitEnglishSkills ==
    /\ \E rows \in BandSeqs :
          \/ Load([BaseRules EXCEPT !.english.ielts_bands = rows])
          \/ Load([BaseRules EXCEPT !.english.pte_bands = rows])
    /\ call = NoCall
    /\ WorkersIdle

CallScoreEnglishSkills ==
    /\ call = NoCall
    /\ \E e \in EnglishSkillsOnly :
          call' = [fn |-> "score_english", e |-> e, ret |-> score_english(e)]
    /\ UNCHANGED <<rules_json, RULES, pc, req, br, resp>>

NextEnglishSkills == CallScoreEnglishSkills

SpecEnglishSkills == InitEnglishSkills /\ [][NextEnglishSkills]_vars

\* The table a test's overall score / skill minimum is looked up in.
OverallTable(test) ==
    IF test = "ielts" THEN RULES.english.ielts_overall ELSE RULES.english.pte_overall

BandTable(test) ==
    IF test = "ielts" THEN RULES.english.ielts_bands ELSE RULES.english.pte_bands

\* The rows a skill minimum mn qualifies for, and those among them with the
\* largest threshold.
Qualifying(rows, mn) == {i \in 1 .. Len(rows) : rows[i].min <= mn}

TopQualifying(rows, mn) ==
    {i \in Qualifying(rows, mn) :
        \A j \in Qualifying(rows, mn) : rows[j].min <= rows[i].min}

\* C3: whenever overall is present, score_english returns the bucket lookup of
\* overall in ielts_overall (ielts) or pte_overall (pte), whatever the four
\* skills are.
C3_OverallTakesPriority ==
    (call.fn = "score_english" /\ call.e.overall # None) =>
        call.ret = _bucket_points(OverallTable(call.e.test), call.e.overall)

\* overall matches no bucket and gives 0, although the four skills are all
\* present and their minimum qualifies for a band worth points.
C3_Witness ==
    /\ call.fn = "score_english"
    /\ call.e.overall # None
    /\ AllPresent(SkillBands(call.e))
    /\ \A i \in 1 .. Len(OverallTable(call.e.test)) :
          ~BucketMatches(OverallTable(call.e.test)[i], call.e.overall)
    /\ \E i \in Qualifying(BandTable(call.e.test), SeqMin(SkillBands(call.e))) :
          BandTable(call.e.test)[i].points > 0
    /\ call.ret = Ok(0)

\* C4: with overall absent and at least one of the four skills absent,
\* score_english returns 0, for either test, and raises nothing.
C4_PartialSkillsScoreZero ==
    (/\ call.fn = "score_english"
     /\ call.e.overall = None
     /\ \E i \in 1 .. 4 : SkillBands(call.e)[i] = None) =>
        call.ret = Ok(0)

\* Three of the four skills supplied, each high enough for a band worth
\* points: the call returned 0.
C4_Witness ==
    /\ call.fn = "score_english"
    /\ call.e.overall = None
    /\ Cardinality({i \in 1 .. 4 : SkillBands(call.e)[i] = None}) = 1
    /\ \E k \in 1 .. Len(BandTable(call.e.test)) :
          /\ BandTable(call.e.test)[k].points > 0
          /\ \A i \in 1 .. 4 :
                SkillBands(call.e)[i] # None =>
                    SkillBands(call.e)[i] >= BandTable(call.e.test)[k].min
    /\ call.ret = Ok(0)

\* C10 as stated: with overall absent and all four skills present the result
\* is the points of the row with the largest threshold the skill minimum
\* meets, whichever order the rows are in: every row with that threshold
\* carries the returned points; and 0 when no row qualifies.
C10_AnyTopRow ==
    (/\ call.fn = "score_english"
     /\ call.e.overall = None
     /\ AllPresent(SkillBands(call.e))) =>
        LET rows == BandTable(call.e.test)
            mn == SeqMin(SkillBands(call.e))
        IN  /\ ~call.ret.raised
            /\ Qualifying(rows, mn) = {} => call.ret.val = 0
            /\ \A i \in TopQualifying(rows, mn) : call.ret.val = rows[i].points

\* C10 amended: the result is the points of the row with the largest
\* threshold the skill minimum meets; of several rows with that same
\* threshold, the one that comes first in the table; 0 when none qualifies.
\* Which skill holds the minimum does not matter.
C10_FirstTopRow ==
    (/\ call.fn = "score_english"
     /\ call.e.overall = None
     /\ AllPresent(SkillBands(call.e))) =>
        LET rows == BandTable(call.e.test)
            mn == SeqMin(SkillBands(call.e))
            top == TopQualifying(rows, mn)
        IN  /\ ~call.ret.raised
            /\ \A i \in 1 .. 4 : mn <= SkillBands(call.e)[i]
            /\ top = {} => call.ret.val = 0
            /\ top # {} =>
                  \E i \in top : (\A j \in top : i <= j) /\ call.ret.val = rows[i].points

\* A table that lists the lower threshold first; the minimum, held by the
\* last skill alone, meets both thresholds and the higher row's points came
\* back.
C10_Witness ==
    /\ call.fn = "score_english"
    /\ call.e.overall = None
    /\ AllPresent(SkillBands(call.e))
    /\ LET rows == BandTable(call.e.test) IN
          /\ Len(rows) = 2
          /\ rows[1].min < rows[2].min
          /\ rows[1].points # rows[2].points
          /\ call.e.speaking >= rows[2].min
          /\ call.e.speaking < call.e.listening
          /\ call.e.speaking < call.e.reading
          /\ call.e.speaking < call.e.writing
          /\ call.ret.val = rows[2].points

(***************************************************************************)
(* score_experience called directly, on every work_experience section of   *)
(* the family: two year tables, the three kinds of mode, a cap.            *)
(***************************************************************************)
Modes == {"sum_cap", "max_only", "average"}

CapValues == {0, 5, 10, 15}

InitExperience ==
    /\ \E o \in ShortBucketSeqs, a \in ShortBucketSeqs, m \in Modes, c \in CapValues :
          Load([BaseRules EXCEPT !.work_experience =
                   [overseas |-> o, australia |-> a, mode |-> m, cap_points |-> c]])
    /\ call = NoCall
    /\ WorkersIdle

CallScoreExperience ==
    /\ call = NoCall
    /\ \E o \in Scores, a \in Scores :
          LET exp == [overseas_years |-> o, aus_years |-> a] IN
          call' = [fn |-> "score_experience", exp |-> exp, ret |-> score_experience(exp)]
    /\ UNCHANGED <<rules_json, RULES, pc, req, br, resp>>

NextExperience == CallScoreExperience

SpecExperience == InitExperience /\ [][NextExperience]_vars

\* The points of the first bucket of t, in table order, that holds v; 0 when
\* none does.
FirstMatch(t, v) ==
    LET hits == {i \in 1 .. Len(t) :
                    t[i].min <= v /\ (("max" \in DOMAIN t[i]) => v <= t[i].max)}
    IN  IF hits = {} THEN 0
        ELSE t[CHOOSE i \in hits : \A j \in hits : i <= j].points

\* C5: score_experience looks the overseas and the Australian years up
\* independently, each in its own table, and returns min(cap_points, sum) in
\* mode sum_cap, never more than cap_points; max of the two in mode max_only;
\* 0 in any other mode.
C5_ExperienceByMode ==
    call.fn = "score_experience" =>
        LET r == RULES.work_experience
            over == FirstMatch(r.overseas, call.exp.overseas_years)
            aus == FirstMatch(r.australia, call.exp.aus_years)
        IN  /\ ~call.ret.raised
            /\ r.mode = "sum_cap" =>
                  /\ call.ret.val <= r.cap_points
                  /\ call.ret.val = (IF over + aus < r.cap_points
                                     THEN over + aus ELSE r.cap_points)
            /\ r.mode = "max_only" =>
                  /\ call.ret.val \in {over, aus}
                  /\ call.ret.val >= over
                  /\ call.ret.val >= aus
            /\ r.mode \notin {"sum_cap", "max_only"} => call.ret.val = 0

\* Mode sum_cap, both sub-scores nonzero and their sum above the cap: the
\* cap came back.
C5_Witness ==
    /\ call.fn = "score_experience"
    /\ RULES.work_experience.mode = "sum_cap"
    /\ FirstMatch(RULES.work_experience.overseas, call.exp.overseas_years) > 0
    /\ FirstMatch(RULES.work_experience.australia, call.exp.aus_years) > 0
    /\ FirstMatch(RULES.work_experience.overseas, call.exp.overseas_years)
          + FirstMatch(RULES.work_experience.australia, call.exp.aus_years)
          > RULES.work_experience.cap_points
    /\ call.ret.val = RULES.work_experience.cap_points

(***************************************************************************)
(* score_au_study called directly, on every australia_study section of     *)
(* the family.                                                             *)
(***************************************************************************)
StudyPoints == {0, 5, 10, 15, 20}

InitAuStudy ==
    /\ \E p \in StudyPoints, b \in StudyPoints :
          Load([BaseRules EXCEPT !.australia_study = [points |-> p, regional_bonus |-> b]])
    /\ call = NoCall
    /\ WorkersIdle

CallScoreAuStudy ==
    /\ call = NoCall
    /\ \E c \in BOOLEAN, r \in BOOLEAN :
          LET stu == [completed |-> c, regional |-> r] IN
          call' = [fn |-> "score_au_study", stu |-> stu, ret |-> score_au_study(stu)]
    /\ UNCHANGED <<rules_json, RULES, pc, req, br, resp>>

NextAuStudy == CallScoreAuStudy

SpecAuStudy == InitAuStudy /\ [][NextAuStudy]_vars

\* C6: score_au_study returns 0 when completed is false, whatever regional
\* is; the base points when completed and not regional; base points plus
\* regional bonus when both.
C6_BonusOnlyOnTopOfBase ==
    call.fn = "score_au_study" =>
        /\ ~call.ret.raised
        /\ ~call.stu.completed => call.ret.val = 0
        /\ (call.stu.completed /\ ~call.stu.regional) =>
              call.ret.val = RULES.australia_study.points
        /\ (call.stu.completed /\ call.stu.regional) =>
              call.ret.val = RULES.australia_study.points
                                + RULES.australia_study.regional_bonus

\* regional without completed, under a table with a nonzero bonus: 0.
C6_Witness ==
    /\ call.fn = "score_au_study"
    /\ ~call.stu.completed
    /\ call.stu.regional
    /\ RULES.australia_study.regional_bonus > 0
    /\ call.ret = Ok(0)

(***************************************************************************)
(* The service: workers run calc_points concurrently (FastAPI runs a       *)
(* plain def handler on its thread pool), one statement at a time, all on  *)
(* the one table RULES.                                                    *)
(*                                                                         *)
(* The tables served: BaseRules and what it becomes when a key a scorer    *)
(* indexes is missing, when the two experience scores are combined by      *)
(* max_only, when meta is missing, and when a bucket carries negative      *)
(* points.  json.loads accepts each, and nothing checks the table after.   *)
(***************************************************************************)
Drop(d, k) == [x \in DOMAIN d \ {k} |-> d[x]]

ExperienceSections ==
    {BaseRules.work_experience,
     Drop(BaseRules.work_experience, "cap_points"),
     [BaseRules.work_experience EXCEPT !.mode = "max_only"]}

StudySections ==
    {BaseRules.australia_study, Drop(BaseRules.australia_study, "regional_bonus")}

AgeSections ==
    {BaseRules.age, <<[min |-> 0, max |-> 1, points |-> -5]>>}

ServedTables ==
    LET full == {[BaseRules EXCEPT !.work_experience = x, !.australia_study = s, !.age = a] :
                    x \in ExperienceSections, s \in StudySections, a \in AgeSections}
    IN  full \cup {Drop(t, "meta") : t \in full}

\* The requests: validated CalcRequest objects.
EnglishInputs ==
    {English("ielts", MaxScore, None, None, None, None),
     English("ielts", None, MaxScore, MaxScore, MaxScore, 1),
     English("pte", None, MaxScore, None, MaxScore, MaxScore)}

Profiles ==
    [visa : {"190"},
     age : {0},
     english : EnglishInputs,
     education : {"bachelor"},
     work_experience : {[overseas_years |-> 2, aus_years |-> 1]},
     australia_study : {[completed |-> FALSE, regional |-> FALSE],
                        [completed |-> TRUE, regional |-> TRUE]},
     professional_year : BOOLEAN,
     naati : {TRUE},
     partner : {"skilled"}]

Init ==
    /\ \E t \in ServedTables : Load(t)
    /\ call = NoCall
    /\ WorkersIdle

\* A request arrives at an idle worker: def calc_points(req), br = {}.
Submit(w) ==
    /\ pc[w] = "idle"
    /\ \E p \in Profiles : req' = [req EXCEPT ![w] = p]
    /\ pc' = [pc EXCEPT ![w] = "age"]
    /\ br' = [br EXCEPT ![w] = EmptyDict]
    /\ resp' = [resp EXCEPT ![w] = NoResponse]
    /\ UNCHANGED <<rules_json, RULES, call>>

\* A plausible slip: the handler answers with what it had computed.
ExceptPartial(w, text) ==
    /\ resp' = [resp EXCEPT ![w] =
                   [status |-> 400, detail |-> text, breakdown |-> br[w]]]
    /\ br' = [br EXCEPT ![w] = EmptyDict]
    /\ pc' = [pc EXCEPT ![w] = "done"]

\* except Exception as e: raise HTTPException(status_code=400, detail=str(e))
\* The local br is dropped with the frame.
Except(w, text) ==
    /\ resp' = [resp EXCEPT ![w] = [status |-> 400, detail |-> text]]
    /\ br' = [br EXCEPT ![w] = EmptyDict]
    /\ pc' = [pc EXCEPT ![w] = "done"]

\* br[key] = <result of a scorer>, or the scorer's exception.
Assign(w, key, result, next) ==
    IF result.raised THEN Except(w, result.detail)
    ELSE /\ br' = [br EXCEPT ![w] = (key :> result.val) @@ @]
         /\ pc' = [pc EXCEPT ![w] = next]
         /\ UNCHANGED resp

StepAge(w) ==
    /\ pc[w] = "age"
    /\ Assign(w, "age", score_age(req[w].age), "english")
    /\ UNCHANGED <<rules_json, RULES, req, call>>

\* A plausible slip: rows.sort(...) on the table's own list in place of
\* sorted(rows, ...).
StepEnglishSortInPlace(w) ==
    /\ pc[w] = "english"
    /\ Assign(w, "english", score_english(req[w].english), "education")
    /\ RULES' = IF req[w].english.overall = None /\ AllPresent(SkillBands(req[w].english))
                THEN (IF req[w].english.test = "ielts"
                      THEN [RULES EXCEPT !.english.ielts_bands = sorted_descending(@)]
                      ELSE [RULES EXCEPT !.english.pte_bands = sorted_descending(@)])
                ELSE RULES
    /\ UNCHANGED <<rules_json, req, call>>

StepEnglish(w) ==
    /\ pc[w] = "english"
    /\ Assign(w, "english", score_english(req[w].english), "education")
    /\ UNCHANGED <<rules_json, RULES, req, call>>

StepEducation(w) ==
    /\ pc[w] = "education"
    /\ Assign(w, "education", score_education(req[w].education), "work_experience")
    /\ UNCHANGED <<rules_json, RULES, req, call>>

StepExperience(w) ==
    /\ pc[w] = "work_experience"
    /\ Assign(w, "work_experience", score_experience(req[w].work_experience),
              "australia_study")
    /\ UNCHANGED <<rules_json, RULES, req, call>>

StepAuStudy(w) ==
    /\ pc[w] = "australia_study"
    /\ Assign(w, "australia_study", score_au_study(req[w].australia_study), "optional")
    /\ UNCHANGED <<rules_json, RULES, req, call>>

\* opt = score_optional(...); br.update(opt)
StepOptional(w) ==
    /\ pc[w] = "optional"
    /\ LET opt == score_optional(req[w].professional_year, req[w].naati, req[w].partner) IN
          IF opt.raised THEN Except(w, opt.detail)
          ELSE /\ br' = [br EXCEPT ![w] = opt.val @@ @]
               /\ pc' = [pc EXCEPT ![w] = "state_nomination"]
               /\ UNCHANGED resp
    /\ UNCHANGED <<rules_json, RULES, req, call>>

StepStateNomination(w) ==
    /\ pc[w] = "state_nomination"
    /\ Assign(w, "state_nomination", score_state_nomination(req[w].visa), "return")
    /\ UNCHANGED <<rules_json, RULES, req, call>>

\* sum(br.values())
RECURSIVE SumOver(_, _)
SumOver(d, keys) ==
    IF keys = {} THEN 0
    ELSE LET k == CHOOSE x \in keys : TRUE IN d[k] + SumOver(d, keys \ {k})

SumValues(d) == SumOver(d, DOMAIN d)

\* The notes of the answer: the f-string reads RULES['meta']['version'] and
\* RULES['meta']['updated_at'].
Notes ==
    IF ~Has(RULES, "meta") THEN KeyError("meta")
    ELSE IF ~Has(RULES.meta, "version") THEN KeyError("version")
    ELSE IF ~Has(RULES.meta, "updated_at") THEN KeyError("updated_at")
    ELSE Ok(<<"Rules " \o RULES.meta.version \o " (" \o RULES.meta.updated_at \o ")",
              "Demo only. Verify with current DHA policy if used in production.">>)

\* total = sum(br.values()); return {...}, still inside the try.
StepReturn(w) ==
    /\ pc[w] = "return"
    /\ IF Notes.raised THEN Except(w, Notes.detail)
       ELSE /\ resp' = [resp EXCEPT ![w] =
                           [status |-> 200,
                            body |-> [visa |-> req[w].visa,
                                      total |-> SumValues(br[w]),
                                      breakdown |-> br[w],
                                      notes |-> Notes.val]]]
            /\ br' = [br EXCEPT ![w] = EmptyDict]
            /\ pc' = [pc EXCEPT ![w] = "done"]
    /\ UNCHANGED <<rules_json, RULES, req, call>>

\* The caller has its answer; the worker takes the next request.
Finish(w) ==
    /\ pc[w] = "done"
    /\ pc' = [pc EXCEPT ![w] = "idle"]
    /\ req' = [req EXCEPT ![w] = EmptyDict]
    /\ resp' = [resp EXCEPT ![w] = NoResponse]
    /\ UNCHANGED <<rules_json, RULES, br, call>>

Next ==
    \E w \in Workers :
        \/ Submit(w)
        \/ StepAge(w)
        \/ StepEnglish(w)
        \/ StepEducation(w)
        \/ StepExperience(w)
        \/ StepAuStudy(w)
        \/ StepOptional(w)
        \/ StepStateNomination(w)
        \/ StepReturn(w)
        \/ Finish(w)

Spec == Init /\ [][Next]_vars

(***************************************************************************)
(* Claims about calc_points.                                               *)
(***************************************************************************)
NineKeys ==
    {"age", "english", "education", "work_experience", "australia_study",
     "professional_year", "naati", "partner", "state_nomination"}

Answered(w) == resp[w].status = 200

\* C1: whenever calc_points returns a result, breakdown has exactly the nine
\* category keys and total is the sum of its nine values.
C1_TotalIsSumOfNine ==
    \A w \in Workers :
        Answered(w) =>
            LET b == resp[w].body.breakdown IN
            /\ DOMAIN b = NineKeys
            /\ resp[w].body.total =
                  b.age + b.english + b.education + b.work_experience
                  + b.australia_study + b.professional_year + b.naati
                  + b.partner + b.state_nomination

\* A result in which every one of the nine categories scored points.
C1_Witness ==
    \E w \in Workers :
        /\ Answered(w)
        /\ \A k \in NineKeys : resp[w].body.breakdown[k] > 0
        /\ resp[w].body.total > 0

\* C7 as stated: in every breakdown returned, under every table loaded, each
\* category value is a non-negative integer.
C7_NoNegativeCategory ==
    \A w \in Workers :
        Answered(w) =>
            \A k \in DOMAIN resp[w].body.breakdown : resp[w].body.breakdown[k] \in Nat

\* The scorers in the order calc_points calls them, each on its slice of p.
ScorerResults(p) ==
    <<score_age(p.age), score_english(p.english), score_education(p.education),
      score_experience(p.work_experience), score_au_study(p.australia_study),
      score_optional(p.professional_year, p.naati, p.partner),
      score_state_nomination(p.visa)>>

AnyScorerRaises(p) == \E i \in 1 .. 7 : ScorerResults(p)[i].raised

\* The text of the first exception of the evaluation of p, the notes included.
FirstError(p) ==
    LET all == ScorerResults(p) \o <<Notes>>
        bad == {i \in 1 .. Len(all) : all[i].raised}
    IN  all[CHOOSE i \in bad : \A j \in bad : i <= j].detail

FailureOnly(w, p) ==
    /\ DOMAIN resp[w] = {"status", "detail"}
    /\ resp[w].status = 400
    /\ resp[w].detail = FirstError(p)

Complete(w, p) ==
    /\ DOMAIN resp[w] = {"status", "body"}
    /\ resp[w].status = 200
    /\ DOMAIN resp[w].body = {"visa", "total", "breakdown", "notes"}
    /\ DOMAIN resp[w].body.breakdown = NineKeys
    /\ resp[w].body.breakdown.age = score_age(p.age).val
    /\ resp[w].body.breakdown.english = score_english(p.english).val
    /\ resp[w].body.breakdown.work_experience = score_experience(p.work_experience).val
    /\ resp[w].body.breakdown.australia_study = score_au_study(p.australia_study).val

C9_RulesReadOnly ==
    /\ RULES = rules_json
    /\ \A v \in Workers, w \in Workers :
          (pc[v] = "done" /\ pc[w] = "done" /\ req[v] = req[w]) => resp[v] = resp[w]

\* Both workers have answered the same profile by the per-skill path, under
\* a band list that is not in descending order in the table.
C9_Witness ==
    /\ pc["w1"] = "done"
    /\ pc["w2"] = "done"
    /\ req["w1"] = req["w2"]
    /\ req["w1"].english.overall = None
    /\ AllPresent(SkillBands(req["w1"].english))
    /\ sorted_descending(BandTable(req["w1"].english.test))
          # BandTable(req["w1"].english.test)
    /\ Answered("w1")
    /\ resp["w1"] = resp["w2"]

====
